---- MODULE Spec2Model ----
(***************************************************************************)
(* A model of rvcc.py, the reference model of the RISC-V calling           *)
(* convention: the type descriptors (Int, FP, Ptr, Pad, Struct, Union,     *)
(* Array, Slice, VarArgs), the allocation state CCState and the            *)
(* classification engine RVMachine.call / RVMachine.ret.                   *)
(*                                                                         *)
(* All sizes and alignments are in bits, as in the source.  A Python       *)
(* object is a record; the objects whose identity the program uses (the    *)
(* copies of the arguments, the copy of the return type and the pointers   *)
(* made by pass_by_reference) carry an "id" field, given in allocation     *)
(* order.  Python's None is the record None for an object and the number   *)
(* NoneLen, which no width and no size equals, for flen, for fprs_left and *)
(* for a size that the promotion set to flen when flen is None.  A         *)
(* descriptor that was not copied yet has id 0, and so has a Slice, which  *)
(* is never a key of the naming map; a Slice holds its child, the copy of  *)
(* the argument it is a view of.                                           *)
(***************************************************************************)
EXTENDS Integers, Sequences, FiniteSets, TLC

VARIABLES xlen, flen, entry, arg_list, ret_ty, instances, state, index, pc,
          raised

vars ==
    <<xlen, flen, entry, arg_list, ret_ty, instances, state, index, pc, raised>>

(***************************************************************************)
(* Python values                                                           *)
(***************************************************************************)
None == [kind |-> "None"]

\* None where the program expects a number: flen=None, fprs_left of a state
\* without floating point registers, a size set to flen=None
NoneLen == -1

\* the truth value of a number or None, as in "if flen": None and 0 are false
bool(x) == x # NoneLen /\ x # 0

\* str() of a number or None
str(x) == IF x = NoneLen THEN "None" ELSE ToString(x)

\* type(x).__name__ of a number or None
type_name(x) == IF x = NoneLen THEN "NoneType" ELSE "int"

\* the message of the TypeError of an ordering comparison with None
not_supported(op, x, y) ==
    "'" \o op \o "' not supported between instances of '" \o type_name(x)
    \o "' and '" \o type_name(y) \o "'"

NoError == [type |-> "", msg |-> ""]

Exception(type, msg) == [type |-> type, msg |-> msg]

Max(a, b) == IF a >= b THEN a ELSE b

\* Python's x % m for a negative modulus m: the result is in (m, 0]
PyModNeg(x, m) == 0 - ((0 - x) % (0 - m))

align_to(x, align) == x - PyModNeg(x, 0 - align)

RECURSIVE SumSizes(_)
SumSizes(members) ==
    IF members = <<>> THEN 0
    ELSE Head(members).size + SumSizes(Tail(members))

RECURSIVE MaxAlignment(_)
MaxAlignment(members) ==
    IF Len(members) = 1 THEN Head(members).alignment
    ELSE Max(Head(members).alignment, MaxAlignment(Tail(members)))

RECURSIVE MaxSize(_)
MaxSize(members) ==
    IF Len(members) = 1 THEN Head(members).size
    ELSE Max(Head(members).size, MaxSize(Tail(members)))

RECURSIVE Repeat(_, _)
Repeat(s, n) == IF n <= 0 THEN <<>> ELSE s \o Repeat(s, n - 1)

InsertAt(s, i, e) == SubSeq(s, 1, i - 1) \o <<e>> \o SubSeq(s, i, Len(s))

(***************************************************************************)
(* The type descriptors                                                    *)
(***************************************************************************)
SInt(size) ==
    [kind |-> "Int", size |-> size, alignment |-> size, signed |-> TRUE, id |-> 0]

UInt(size) ==
    [kind |-> "Int", size |-> size, alignment |-> size, signed |-> FALSE, id |-> 0]

FP(size) == [kind |-> "FP", size |-> size, alignment |-> size, id |-> 0]

Ptr(size) == [kind |-> "Ptr", size |-> size, alignment |-> size, id |-> 0]

Pad(size) == [kind |-> "Pad", size |-> size, alignment |-> 1, id |-> 0]

\* The loop of Struct.add_padding from position i (1-based) at cur_offset
RECURSIVE add_padding_from(_, _, _)
add_padding_from(members, i, cur_offset) ==
    IF i > Len(members) THEN members
    ELSE LET wanted_align == members[i].alignment
         IN  IF (cur_offset % wanted_align) # 0
             THEN LET pad_size == 0 - PyModNeg(cur_offset, 0 - wanted_align)
                  IN  add_padding_from(InsertAt(members, i, Pad(pad_size)),
                                       i + 2,
                                       cur_offset + pad_size + members[i].size)
             ELSE add_padding_from(members, i + 1, cur_offset + members[i].size)

add_padding(members) == add_padding_from(members, 1, 0)

\* self.size = sum(m.size for m in members): the constructor's argument tuple,
\* which add_padding (it works on self.members) does not change
StructSize(members) == align_to(SumSizes(members), MaxAlignment(members))

Struct(members) ==
    IF Len(members) = 0
    THEN [kind |-> "Struct", members |-> <<>>, alignment |-> 8, size |-> 0,
          id |-> 0]
    ELSE [kind |-> "Struct", members |-> add_padding(members),
          alignment |-> MaxAlignment(members),
          size |-> StructSize(members), id |-> 0]

Union(members) ==
    [kind |-> "Union", members |-> members,
     alignment |-> MaxAlignment(members),
     size |-> align_to(MaxSize(members), MaxAlignment(members)), id |-> 0]

Array(ty, num_elements) ==
    [kind |-> "Array", ty |-> ty, num_elements |-> num_elements,
     alignment |-> ty.alignment, size |-> ty.size * num_elements, id |-> 0]

Slice(child, low, high) ==
    [kind |-> "Slice", child |-> child, low |-> low, high |-> high,
     size |-> high - low + 1, alignment |-> high - low + 1, id |-> 0]

VarArgs(args) == [kind |-> "VarArgs", args |-> args, id |-> 0]

isStruct(ty) == ty.kind = "Struct"
isArray(ty) == ty.kind = "Array"
isFP(ty) == ty.kind = "FP"
isInt(ty) == ty.kind = "Int"
isPad(ty) == ty.kind = "Pad"
isVarArgs(ty) == ty.kind = "VarArgs"

hasFlatten(ty) == ty.kind \in {"Struct", "Array"}

\* Struct.flatten and Array.flatten
RECURSIVE flatten(_)
RECURSIVE flatten_members(_)
flatten_members(members) ==
    IF members = <<>> THEN <<>>
    ELSE (IF hasFlatten(Head(members)) THEN flatten(Head(members))
          ELSE <<Head(members)>>) \o flatten_members(Tail(members))

flatten(ty) ==
    IF isStruct(ty) THEN flatten_members(ty.members)
    ELSE IF hasFlatten(ty.ty) THEN Repeat(flatten(ty.ty), ty.num_elements)
         ELSE Repeat(<<ty.ty>>, ty.num_elements)

\* The predefined descriptors of the module
Int8 == SInt(8)
Int16 == SInt(16)
Int32 == SInt(32)
Int64 == SInt(64)
Int128 == SInt(128)
UInt8 == UInt(8)
UInt16 == UInt(16)
UInt32 == UInt(32)
UInt64 == UInt(64)
UInt128 == UInt(128)
Char == UInt8
Float == FP(32)
Double == FP(64)
LongDouble == FP(128)
Ptr32 == Ptr(32)
Ptr64 == Ptr(64)

(***************************************************************************)
(* CCState: the allocation state                                           *)
(***************************************************************************)
\* the 8 argument registers of each register file
NumArgRegs == 8

\* a0 and fa0 are registers 10
FirstArgReg == 10

\* [None] * 32
NumRegs == 32

Raise(st, type, msg) == [st EXCEPT !.exc = Exception(type, msg)]

Raised(st) == st.exc # NoError

\* str(n).zfill(2)
zfill2(n) == IF n < 10 THEN "0" \o ToString(n) ELSE ToString(n)

\* type_name_mapping is a dict keyed by object identity, kept in insertion
\* order: a sequence of [key, name]
HasKey(mapping, key) == \E i \in 1..Len(mapping) : mapping[i].key = key

GetItem(mapping, key) ==
    mapping[CHOOSE i \in 1..Len(mapping) : mapping[i].key = key].name

SetItem(mapping, key, name) ==
    IF HasKey(mapping, key)
    THEN [i \in 1..Len(mapping) |->
            IF mapping[i].key = key THEN [key |-> key, name |-> name]
            ELSE mapping[i]]
    ELSE Append(mapping, [key |-> key, name |-> name])

\* the names of in_args from position i (1-based); arg_idx and varg_idx count
\* the named and the variadic arguments seen so far
\* the dict that the assignment d[key] = name, done before the assignments
\* that gave the dict later, leads to: the key comes first, and a later
\* assignment to the same key has replaced the name
SetFirst(key, name, later) ==
    IF HasKey(later, key)
    THEN <<[key |-> key, name |-> GetItem(later, key)]>>
         \o SelectSeq(later, LAMBDA e : e.key # key)
    ELSE <<[key |-> key, name |-> name]>> \o later

RECURSIVE name_types_from(_, _, _, _, _)
name_types_from(in_args, var_args_index, i, arg_idx, varg_idx) ==
    IF i > Len(in_args) THEN <<>>
    ELSE IF i - 1 >= var_args_index
         THEN SetFirst(in_args[i].id, "varg" \o zfill2(varg_idx),
                       name_types_from(in_args, var_args_index, i + 1,
                                       arg_idx, varg_idx + 1))
         ELSE SetFirst(in_args[i].id, "arg" \o zfill2(arg_idx),
                       name_types_from(in_args, var_args_index, i + 1,
                                       arg_idx + 1, varg_idx))

name_types(in_args, var_args_index, out_arg) ==
    LET named == name_types_from(in_args, var_args_index, 1, 0, 0)
    IN  IF out_arg # None THEN SetItem(named, out_arg.id, "ret") ELSE named

\* CCState.__init__; next_id is the identity the next allocated object gets
CCState(xl, fl, in_args, var_args_index, out_arg, next_id) ==
    [xlen |-> xl, flen |-> fl,
     gprs_left |-> NumArgRegs,
     gprs |-> [r \in 0..(NumRegs - 1) |-> None],
     fprs |-> IF bool(fl) THEN [r \in 0..(NumRegs - 1) |-> None] ELSE None,
     fprs_left |-> IF bool(fl) THEN NumArgRegs ELSE NoneLen,
     stack |-> <<>>,
     type_name_mapping |-> name_types(in_args, var_args_index, out_arg),
     in_args |-> in_args,
     var_args_index |-> var_args_index,
     out_arg |-> out_arg,
     next_id |-> next_id,
     exc |-> NoError]

next_arg_gpr(st) == (NumArgRegs - st.gprs_left) + FirstArgReg

skip_gpr(st) ==
    IF Raised(st) THEN st
    ELSE IF st.gprs_left = 0 THEN Raise(st, "ValueError", "all GPRs assigned")
    ELSE [st EXCEPT !.gprs_left = @ - 1]

assign_to_gpr(st, ty) ==
    IF Raised(st) THEN st
    ELSE IF ty.size = NoneLen
         THEN Raise(st, "TypeError", not_supported(">", ty.size, st.xlen))
    ELSE IF ty.size > st.xlen
         THEN Raise(st, "ValueError", "object is larger than xlen")
    ELSE IF st.gprs_left <= 0
         THEN Raise(st, "ValueError", "all argument registers already assigned")
    ELSE [st EXCEPT !.gprs[next_arg_gpr(st)] = ty, !.gprs_left = @ - 1]

assign_to_stack(st, ty) ==
    IF Raised(st) THEN st
    ELSE IF ty.size = NoneLen
         THEN Raise(st, "TypeError", not_supported(">", ty.size, st.xlen))
    ELSE IF ty.size > 2 * st.xlen
         THEN Raise(st, "ValueError",
                    "objects larger than 2x xlen should be passed by reference")
    ELSE [st EXCEPT !.stack = Append(@, ty)]

\* a register is taken without a look at the number left
assign_to_gpr_or_stack_unguarded(st, ty) ==
    IF Raised(st) THEN st
    ELSE IF ty.size = NoneLen
         THEN Raise(st, "TypeError", not_supported(">", ty.size, st.xlen))
    ELSE IF ty.size > st.xlen
         THEN Raise(st, "ValueError", "object is larger than xlen")
    ELSE assign_to_gpr(st, ty)

\* the stack is used while one register is still free
assign_to_gpr_or_stack_early(st, ty) ==
    IF Raised(st) THEN st
    ELSE IF ty.size = NoneLen
         THEN Raise(st, "TypeError", not_supported(">", ty.size, st.xlen))
    ELSE IF ty.size > st.xlen
         THEN Raise(st, "ValueError", "object is larger than xlen")
    ELSE IF st.gprs_left > 1 THEN assign_to_gpr(st, ty)
    ELSE assign_to_stack(st, ty)

assign_to_gpr_or_stack(st, ty) ==
    IF Raised(st) THEN st
    ELSE IF ty.size = NoneLen
         THEN Raise(st, "TypeError", not_supported(">", ty.size, st.xlen))
    ELSE IF ty.size > st.xlen
         THEN Raise(st, "ValueError", "object is larger than xlen")
    ELSE IF st.gprs_left >= 1 THEN assign_to_gpr(st, ty)
    ELSE assign_to_stack(st, ty)

\* the register number, or the TypeError of "8-self.fprs_left" when the state
\* has no floating point registers (fprs_left is None)
next_arg_fpr(st) ==
    IF st.fprs_left = NoneLen
    THEN Exception("TypeError",
                   "unsupported operand type(s) for -: 'int' and 'NoneType'")
    ELSE (NumArgRegs - st.fprs_left) + FirstArgReg

assign_to_fpr(st, ty) ==
    IF Raised(st) THEN st
    ELSE IF ty.size = NoneLen \/ st.flen = NoneLen
         THEN Raise(st, "TypeError", not_supported(">", ty.size, st.flen))
    ELSE IF ty.size > st.flen
         THEN Raise(st, "ValueError", "object is larger than flen")
    ELSE IF st.fprs_left = NoneLen
         THEN Raise(st, "TypeError", not_supported("<=", st.fprs_left, 0))
    ELSE IF st.fprs_left <= 0
         THEN Raise(st, "ValueError",
                    "all FP argument registers already assigned")
    ELSE [st EXCEPT !.fprs[next_arg_fpr(st)] = ty, !.fprs_left = @ - 1]

\* the pointer gets no name
pass_by_reference_unnamed(st, ty) ==
    IF Raised(st) THEN st
    ELSE LET ptrty == [Ptr(st.xlen) EXCEPT !.id = st.next_id]
         IN  assign_to_gpr_or_stack([st EXCEPT !.next_id = @ + 1], ptrty)

pass_by_reference(st, ty) ==
    IF Raised(st) THEN st
    ELSE LET ptrty == [Ptr(st.xlen) EXCEPT !.id = st.next_id]
             st1 == assign_to_gpr_or_stack([st EXCEPT !.next_id = @ + 1], ptrty)
         IN  IF ~Raised(st1) /\ HasKey(st1.type_name_mapping, ty.id)
             THEN [st1 EXCEPT !.type_name_mapping =
                      SetItem(@, ptrty.id,
                              "&" \o GetItem(st1.type_name_mapping, ty.id))]
             ELSE st1

\* __repr__ of the descriptors; repr_list is the repr of a Python list
RECURSIVE repr(_)
RECURSIVE repr_list(_)
repr_list(members) ==
    IF members = <<>> THEN ""
    ELSE IF Len(members) = 1 THEN repr(Head(members))
    ELSE repr(Head(members)) \o ", " \o repr_list(Tail(members))

repr(ty) ==
    CASE ty.kind = "Int" ->
           (IF ty.signed THEN "S" ELSE "U") \o "Int" \o str(ty.size)
      [] ty.kind = "FP" -> "FP" \o str(ty.size)
      [] ty.kind = "Ptr" -> "Ptr" \o str(ty.size)
      [] ty.kind = "Pad" -> "Pad" \o str(ty.size)
      [] ty.kind = "Struct" ->
           "Struct([" \o repr_list(ty.members) \o "], s" \o str(ty.size)
           \o ", a" \o str(ty.alignment) \o ")"
      [] ty.kind = "Union" ->
           "Union([" \o repr_list(ty.members) \o "], s" \o str(ty.size)
           \o ", a" \o str(ty.alignment) \o ")"
      [] ty.kind = "Array" ->
           "Array(" \o repr(ty.ty) \o "*" \o ToString(ty.num_elements) \o ", s"
           \o str(ty.size) \o ", a" \o str(ty.alignment) \o ")"
      [] ty.kind = "VarArgs" -> "VarArgs([" \o repr_list(ty.args) \o "])"
      [] ty.kind = "Slice" ->
           repr(ty.child) \o "[" \o ToString(ty.low) \o ":"
           \o ToString(ty.high) \o "]"
      [] OTHER -> "None"

typestr_or_name(st, ty) ==
    IF ty = None THEN "?"
    ELSE IF ty.kind = "Slice"
         THEN LET suffix == "[" \o ToString(ty.low) \o ":" \o ToString(ty.high)
                            \o "]"
              IN  IF HasKey(st.type_name_mapping, ty.child.id)
                  THEN GetItem(st.type_name_mapping, ty.child.id) \o suffix
                  ELSE repr(ty)
    ELSE IF HasKey(st.type_name_mapping, ty.id)
         THEN GetItem(st.type_name_mapping, ty.id)
    ELSE repr(ty)

\* the bit offset of stack object idx (1-based), as the loop of
\* get_oldsp_rel_stack_locs accumulates it in oldsp_off
RECURSIVE oldsp_off(_, _)
oldsp_off(st, idx) ==
    IF idx = 1 THEN 0
    ELSE align_to(align_to(oldsp_off(st, idx - 1) + st.stack[idx - 1].size,
                           st.xlen),
                  st.stack[idx].alignment)

\* the record [exc, value]: align_to divides by the alignment of every
\* stack object but the first
get_oldsp_rel_stack_locs(st) ==
    IF \E idx \in 2..Len(st.stack) : st.stack[idx].alignment = 0
    THEN [exc |-> Exception("ZeroDivisionError", "integer modulo by zero"),
          value |-> <<>>]
    ELSE [exc |-> NoError,
          value |-> [idx \in 1..Len(st.stack) |-> oldsp_off(st, idx) \div 8]]

\* sp_offset after the loop "for i in range(0, n)" of get_oldsp_rel_stack_loc
RECURSIVE sp_offset_after(_, _)
sp_offset_after(st, n) ==
    IF n = 0 THEN 0
    ELSE align_to(sp_offset_after(st, n - 1),
                  Max(st.xlen, st.stack[n].alignment)) + st.stack[n].size

\* obj_idx is the Python index (0-based); the result is the record
\* [exc, value]
get_oldsp_rel_stack_loc(st, obj_idx) ==
    IF obj_idx < 0 \/ obj_idx >= Len(st.stack)
    THEN [exc |-> Exception("ValueError", "invalid stack object"), value |-> 0]
    ELSE [exc |-> NoError,
          value |-> align_to(sp_offset_after(st, obj_idx),
                             Max(st.xlen, st.stack[obj_idx + 1].alignment))
                    \div 8]

(***************************************************************************)
(* RVMachine: the classification engine                                    *)
(***************************************************************************)
\* copy.copy(arg): a new object, with the identity id
copy(arg, id) == IF arg = None THEN None ELSE [arg EXCEPT !.id = id]

\* the caller's list after "in_args.pop(); in_args.extend(var_args)"
unwrap_var_args(args) ==
    IF Len(args) >= 1 /\ isVarArgs(args[Len(args)])
    THEN SubSeq(args, 1, Len(args) - 1) \o args[Len(args)].args
    ELSE args

find_var_args_index(args) ==
    IF Len(args) >= 1 /\ isVarArgs(args[Len(args)])
    THEN Len(args) - 1
    ELSE Len(args)

\* the exception verify_arg_list raises, or NoError
verify_arg_list(in_args, out_arg) ==
    LET ids == {in_args[i].id : i \in 1..Len(in_args)}
    IN  IF Len(in_args) # Cardinality(ids)
           \/ (out_arg # None /\ out_arg.id \in ids)
        THEN Exception("ValueError", "Unique type objects must be used")
        ELSE IF isVarArgs(out_arg)
        THEN Exception("InvalidVarArgs", "Return type cannot be varargs")
        ELSE IF \E i \in 1..Len(in_args) : isVarArgs(in_args[i])
        THEN Exception("InvalidVarArgs", "VarArgs must be last element")
        ELSE NoError

filter_empty(in_args) == SelectSeq(in_args, LAMBDA arg : arg.size > 0)

\* one round of the loop "Promote varargs"
promote(arg, xl, fl) ==
    IF isInt(arg) /\ arg.size < xl
    THEN [arg EXCEPT !.size = xl, !.alignment = xl]
    ELSE IF isFP(arg) /\ arg.size < xl
    THEN [arg EXCEPT !.size = fl, !.alignment = fl]
    ELSE arg

promote_var_args(in_args, var_args_index, xl, fl) ==
    [i \in 1..Len(in_args) |->
        IF i - 1 >= var_args_index THEN promote(in_args[i], xl, fl)
        ELSE in_args[i]]

not_pad(members) == SelectSeq(members, LAMBDA mem : ~isPad(mem))

\* the three member patterns of the floating point calling convention
fp_pair(ty1, ty2, xl, fl) ==
    \/ isFP(ty1) /\ isFP(ty2) /\ ty1.size <= fl /\ ty2.size <= fl
    \/ isFP(ty1) /\ isInt(ty2) /\ ty1.size <= fl /\ ty2.size <= xl
    \/ isInt(ty1) /\ isFP(ty2) /\ ty1.size <= xl /\ ty2.size <= fl

\* the return type: is the address to store it to an implicit first parameter
classify_return(st, out_arg) ==
    IF bool(st.flen) /\ isStruct(out_arg) /\ out_arg.size <= 2 * st.flen
    THEN LET ty == Struct(flatten(out_arg))
             mems == not_pad(ty.members)
         IN  IF Len(mems) = 2
             THEN IF fp_pair(mems[1], mems[2], st.xlen, st.flen) THEN st
                  ELSE pass_by_reference(st, out_arg)
             ELSE st
    ELSE IF out_arg # None /\ out_arg.size > 2 * st.xlen
         THEN pass_by_reference(st, out_arg)
         ELSE st

\* RVMachine.call up to its loop over the arguments: the record
\* [arg_list, state, exc] of the caller's list as call leaves it, the new
\* CCState (None when an exception came first) and the exception
call_prologue(args, out, xl, fl) ==
    LET unwrapped == unwrap_var_args(args)
        var_args_index == find_var_args_index(args)
        copies == [i \in 1..Len(unwrapped) |-> copy(unwrapped[i], i)]
        out_arg == copy(out, Len(unwrapped) + 1)
        invalid == verify_arg_list(copies, out_arg)
    IN  IF invalid # NoError
        THEN [arg_list |-> unwrapped, state |-> None, exc |-> invalid]
        ELSE LET in_args == promote_var_args(filter_empty(copies),
                                             var_args_index, xl, fl)
                 st == CCState(xl, fl, in_args, var_args_index, out_arg,
                               Len(unwrapped) + 2)
             IN  IF isArray(out_arg)
                    \/ \E i \in 1..Len(in_args) : isArray(in_args[i])
                 THEN [arg_list |-> unwrapped, state |-> st,
                       exc |-> Exception("ValueError",
                                         "Byval arrays not supported in C")]
                 ELSE LET st1 == classify_return(st, out_arg)
                      IN  [arg_list |-> unwrapped, state |-> st1,
                           exc |-> st1.exc]

\* the second member is taken to follow the first without padding
fp_convention_packed(st, ty) ==
    LET xl == st.xlen
        fl == st.flen
        flattened == isStruct(ty) /\ ty.size <= Max(2 * fl, 2 * xl)
        flat_struct == Struct(flatten(ty))
    IN  IF flattened /\ Len(flat_struct.members) = 1
        THEN \* flat_ty[0]
             [handled |-> TRUE,
              st |-> Raise(st, "TypeError",
                           "'Struct' object is not subscriptable")]
        ELSE LET flat_ty == IF flattened THEN flat_struct ELSE ty
             IN  IF isFP(flat_ty) /\ flat_ty.size <= fl /\ st.fprs_left >= 1
                 THEN [handled |-> TRUE, st |-> assign_to_fpr(st, ty)]
                 ELSE IF isStruct(flat_ty) /\ flat_ty.size <= 2 * fl
                         /\ Len(not_pad(flat_ty.members)) = 2
                 THEN LET mems == not_pad(flat_ty.members)
                          ty1 == mems[1]
                          ty2 == mems[2]
                          ty1_slice == Slice(ty, 0, ty1.size - 1)
                          ty2_off == ty1.size
                          ty2_slice == Slice(ty, ty2_off,
                                             ty2_off + ty2.size - 1)
                      IN  IF isFP(ty1) /\ isFP(ty2)
                             /\ ty1.size <= fl /\ ty2.size <= fl
                             /\ st.fprs_left >= 2
                          THEN [handled |-> TRUE,
                                st |-> assign_to_fpr(assign_to_fpr(st, ty1_slice),
                                                     ty2_slice)]
                          ELSE IF isFP(ty1) /\ isInt(ty2)
                                  /\ ty1.size <= fl /\ ty2.size <= xl
                                  /\ st.fprs_left >= 1 /\ st.gprs_left >= 1
                          THEN [handled |-> TRUE,
                                st |-> assign_to_gpr(assign_to_fpr(st, ty1_slice),
                                                     ty2_slice)]
                          ELSE IF isInt(ty1) /\ isFP(ty2)
                                  /\ ty1.size <= xl /\ ty2.size <= fl
                                  /\ st.gprs_left >= 1 /\ st.fprs_left >= 1
                          THEN [handled |-> TRUE,
                                st |-> assign_to_fpr(assign_to_gpr(st, ty1_slice),
                                                     ty2_slice)]
                          ELSE [handled |-> FALSE, st |-> st]
                 ELSE [handled |-> FALSE, st |-> st]

\* the special-case rules of the floating point calling convention for a
\* named argument: [handled, st], handled when the loop goes on to the next
\* argument (continue) or an exception ends it
fp_convention(st, ty) ==
    LET xl == st.xlen
        fl == st.flen
        flattened == isStruct(ty) /\ ty.size <= Max(2 * fl, 2 * xl)
        flat_struct == Struct(flatten(ty))
    IN  IF flattened /\ Len(flat_struct.members) = 1
        THEN \* flat_ty[0]
             [handled |-> TRUE,
              st |-> Raise(st, "TypeError",
                           "'Struct' object is not subscriptable")]
        ELSE LET flat_ty == IF flattened THEN flat_struct ELSE ty
             IN  IF isFP(flat_ty) /\ flat_ty.size <= fl /\ st.fprs_left >= 1
                 THEN [handled |-> TRUE, st |-> assign_to_fpr(st, ty)]
                 ELSE IF isStruct(flat_ty) /\ flat_ty.size <= 2 * fl
                         /\ Len(not_pad(flat_ty.members)) = 2
                 THEN LET mems == not_pad(flat_ty.members)
                          ty1 == mems[1]
                          ty2 == mems[2]
                          ty1_slice == Slice(ty, 0, ty1.size - 1)
                          ty2_off == Max(ty1.size, ty2.alignment)
                          ty2_slice == Slice(ty, ty2_off,
                                             ty2_off + ty2.size - 1)
                      IN  IF isFP(ty1) /\ isFP(ty2)
                             /\ ty1.size <= fl /\ ty2.size <= fl
                             /\ st.fprs_left >= 2
                          THEN [handled |-> TRUE,
                                st |-> assign_to_fpr(assign_to_fpr(st, ty1_slice),
                                                     ty2_slice)]
                          ELSE IF isFP(ty1) /\ isInt(ty2)
                                  /\ ty1.size <= fl /\ ty2.size <= xl
                                  /\ st.fprs_left >= 1 /\ st.gprs_left >= 1
                          THEN [handled |-> TRUE,
                                st |-> assign_to_gpr(assign_to_fpr(st, ty1_slice),
                                                     ty2_slice)]
                          ELSE IF isInt(ty1) /\ isFP(ty2)
                                  /\ ty1.size <= xl /\ ty2.size <= fl
                                  /\ st.gprs_left >= 1 /\ st.fprs_left >= 1
                          THEN [handled |-> TRUE,
                                st |-> assign_to_fpr(assign_to_gpr(st, ty1_slice),
                                                     ty2_slice)]
                          ELSE [handled |-> FALSE, st |-> st]
                 ELSE [handled |-> FALSE, st |-> st]

\* an argument of 2*xlen bits is split only when both halves get a register
integer_convention_pair(st, ty, is_var_arg) ==
    LET xl == st.xlen
    IN  IF ty.size = NoneLen
        THEN Raise(st, "TypeError",
                   "'<=' not supported between instances of 'NoneType' and 'int'")
        ELSE IF ty.size <= xl THEN assign_to_gpr_or_stack(st, ty)
        ELSE IF ty.size <= 2 * xl
        THEN LET st1 == IF is_var_arg /\ ty.alignment = 2 * xl
                           /\ st.gprs_left % 2 = 1
                        THEN skip_gpr(st) ELSE st
             IN  IF st1.gprs_left > 1
                 THEN assign_to_gpr_or_stack(
                          assign_to_gpr_or_stack(st1, Slice(ty, 0, xl - 1)),
                          Slice(ty, xl, 2 * xl - 1))
                 ELSE assign_to_stack(st1, ty)
        ELSE pass_by_reference(st, ty)

\* the standard integer calling convention
integer_convention(st, ty, is_var_arg) ==
    LET xl == st.xlen
    IN  IF ty.size = NoneLen
        THEN \* a size the promotion set to None: "ty.size <= xlen"
             Raise(st, "TypeError",
                   "'<=' not supported between instances of 'NoneType' and 'int'")
        ELSE IF ty.size <= xl THEN assign_to_gpr_or_stack(st, ty)
        ELSE IF ty.size <= 2 * xl
        THEN LET st1 == IF is_var_arg /\ ty.alignment = 2 * xl
                           /\ st.gprs_left % 2 = 1
                        THEN skip_gpr(st) ELSE st
             IN  IF st1.gprs_left > 0
                 THEN assign_to_gpr_or_stack(
                          assign_to_gpr_or_stack(st1, Slice(ty, 0, xl - 1)),
                          Slice(ty, xl, 2 * xl - 1))
                 ELSE assign_to_stack(st1, ty)
        ELSE pass_by_reference(st, ty)

\* one round of the loop "for index, ty in enumerate(in_args)"; idx is the
\* Python index (0-based)
classify_arg(st, idx) ==
    LET ty == st.in_args[idx + 1]
        is_var_arg == idx >= st.var_args_index
        fp == fp_convention(st, ty)
    IN  IF bool(st.flen) /\ ~is_var_arg /\ fp.handled THEN fp.st
        ELSE integer_convention(st, ty, is_var_arg)

\* the loop "for index, ty in enumerate(in_args)" from round idx on, up to
\* its end or the first exception
RECURSIVE classify_all(_, _)
classify_all(st, idx) ==
    IF Raised(st) \/ idx >= Len(st.in_args) THEN st
    ELSE classify_all(classify_arg(st, idx), idx + 1)

\* one whole call m.call(args, out): the record [arg_list, state, exc] of
\* the caller's list as call leaves it, the CCState it returns and the
\* exception that ended it
call_whole(args, out, xl, fl) ==
    LET r == call_prologue(args, out, xl, fl)
    IN  IF r.exc # NoError THEN r
        ELSE LET st == classify_all(r.state, 0)
             IN  [arg_list |-> r.arg_list, state |-> st, exc |-> st.exc]

\* name.startswith('&'), for a name typestr_or_name gives: the names that
\* start with '&' are those pass_by_reference made from another name
startswith_amp(st, name) ==
    \E i \in 1..Len(st.type_name_mapping) :
        name = "&" \o st.type_name_mapping[i].name

\* the end of RVMachine.ret, after "state = self.call(in_args)"
ret_epilogue(st) ==
    LET st1 == IF startswith_amp(st, typestr_or_name(st, st.gprs[FirstArgReg]))
               THEN [st EXCEPT !.gprs[FirstArgReg] = None] ELSE st
    IN  IF st1.type_name_mapping = <<>>
        THEN Raise(st1, "StopIteration", "")
        ELSE [st1 EXCEPT !.type_name_mapping =
                 SetItem(@, st1.type_name_mapping[1].key, "ret")]

(***************************************************************************)
(* The operations, as steps of one call                                    *)
(***************************************************************************)
\* m.call(arg_list, ret_ty), up to the loop over the arguments
call ==
    /\ pc = "start"
    /\ entry = "call"
    /\ LET r == call_prologue(arg_list, ret_ty, xlen, flen)
       IN  /\ arg_list' = r.arg_list
           /\ state' = r.state
           /\ raised' = r.exc
           /\ pc' = IF r.exc = NoError THEN "loop" ELSE "raised"
    /\ index' = 0
    /\ UNCHANGED <<xlen, flen, entry, ret_ty, instances>>

\* m.ret(ret_ty), up to the loop over the arguments of its call
ret ==
    /\ pc = "start"
    /\ entry = "ret"
    /\ LET in_args == IF ret_ty # None THEN <<ret_ty>> ELSE <<>>
           r == call_prologue(in_args, None, xlen, flen)
       IN  /\ state' = r.state
           /\ raised' = r.exc
           /\ pc' = IF r.exc = NoError THEN "loop" ELSE "raised"
    /\ index' = 0
    /\ UNCHANGED <<xlen, flen, entry, ret_ty, arg_list, instances>>

\* one round of the loop over the arguments
call_loop ==
    /\ pc = "loop"
    /\ index < Len(state.in_args)
    /\ LET st == classify_arg(state, index)
       IN  /\ state' = st
           /\ raised' = st.exc
           /\ pc' = IF Raised(st) THEN "raised" ELSE "loop"
    /\ index' = index + 1
    /\ UNCHANGED <<xlen, flen, entry, ret_ty, arg_list, instances>>

\* "return state" of call and, for ret, the rest of ret
call_return ==
    /\ pc = "loop"
    /\ index = Len(state.in_args)
    /\ LET st == IF entry = "ret" THEN ret_epilogue(state) ELSE state
       IN  /\ state' = st
           /\ raised' = st.exc
           /\ pc' = IF Raised(st) THEN "raised" ELSE "done"
    /\ UNCHANGED <<xlen, flen, entry, ret_ty, arg_list, instances, index>>

Next == call \/ ret \/ call_loop \/ call_return

(***************************************************************************)
(* The inputs                                                              *)
(***************************************************************************)
\* RVMachine.__init__: the supported widths
XLens == {32, 64, 128}
FLens == {NoneLen, 0, 32, 64, 128}

Machines == XLens \X FLens

\* the longest run of equal arguments that starts a list
MaxFill == 9

\* the most arguments that follow the run in the lists of StackLists
MaxTail == 3

ScalarTypes == {Int8, UInt16, Int32, Int64, Int128, Float, Double, LongDouble,
                Ptr32, Ptr64}

LeafTypes == {Int8, Int16, Int32, Int64, Int128, Float, Double, LongDouble}

\* every struct of two scalars, and structs that flatten to two scalars
PairTypes ==
    {Struct(<<a, b>>) : a \in LeafTypes, b \in LeafTypes}
    \cup {Struct(<<Struct(<<Int8, Int8>>), Float>>),
          Struct(<<Array(Int32, 1), Array(Struct(<<Double>>), 1)>>),
          Struct(<<Struct(<<Int32>>), Struct(<<>>), Struct(<<Double>>)>>),
          Struct(<<Int32, Struct(<<Array(Double, 1)>>)>>),
          Struct(<<Int8, Array(Float, 1)>>),
          Struct(<<Array(Float, 2)>>),
          Struct(<<Struct(<<Double, Float>>)>>),
          Struct(<<Array(Struct(<<Float>>), 2)>>),
          Struct(<<Float, Struct(<<>>), Int8>>),
          Struct(<<Ptr32, Int32>>),
          Struct(<<Union(<<Int8, Int32>>), Double>>)}

StructTypes ==
    {Struct(<<>>),
     Struct(<<Int8, Int32, Int8>>),
     Struct(<<Int64, Double>>),
     Struct(<<Double, Float>>),
     Struct(<<Double, Int16>>),
     Struct(<<Int8, Double>>),
     Struct(<<Float, Float>>),
     Struct(<<Int32, Float>>),
     Struct(<<Struct(<<Int8, Int8>>), Float>>),
     Struct(<<Int64, Float>>),
     Struct(<<Int32, LongDouble>>),
     Struct(<<Array(Int32, 1), Array(Struct(<<Double>>), 1)>>),
     Struct(<<Struct(<<Int32>>), Struct(<<>>), Struct(<<Double>>)>>),
     Struct(<<Int8, Array(Float, 1)>>),
     Struct(<<Array(Float, 2)>>),
     Struct(<<Ptr32, Int32>>),
     Struct(<<Int16, Int16, Int16>>),
     Struct(<<Int32, Int32, Int32>>),
     Struct(<<Int64, Int64>>),
     Struct(<<Array(Int8, 20)>>),
     Struct(<<Float>>),
     Struct(<<Array(Double, 1)>>),
     Struct(<<LongDouble>>),
     Union(<<Int32, Float>>),
     Union(<<Int64, Double>>)}

ArgTypes == ScalarTypes \cup StructTypes \cup {Array(Int8, 3)}

VarArgTypes == {Int8, UInt16, Int32, Int64, Int128, Float, Double, LongDouble,
                Struct(<<Int64, Double>>), Struct(<<Ptr32, Int32>>),
                Struct(<<Int32, Float>>), Struct(<<Float>>), Struct(<<>>)}

Wrappers ==
    {VarArgs(<<v>>) : v \in VarArgTypes}
    \cup {VarArgs(<<v, w>>) : v \in {Int32, Int64, Float}, w \in {Int64, Double}}
    \cup {VarArgs(<<>>), VarArgs(<<VarArgs(<<Int32>>)>>),
          VarArgs(<<Float, Int8, UInt16>>),
          VarArgs(<<Int32, Struct(<<Int64, Double>>)>>)}

Fillers == {Int32, Float}

\* a run of equal arguments, then at most one argument of any kind
FillLists ==
    {Repeat(<<f>>, k) \o t :
        f \in Fillers, k \in 0..MaxFill,
        t \in {<<>>} \cup {<<x>> : x \in ArgTypes \cup Wrappers}}

\* a run of named arguments, an empty struct, then the variadic arguments
EmptyLists ==
    {Repeat(<<Int32>>, k) \o <<Struct(<<>>)>> \o t :
        k \in 0..MaxFill,
        t \in {<<>>} \cup {<<x>> : x \in {Int32, Int64, Double} \cup Wrappers}}

\* a VarArgs that is not the last element
MisuseLists ==
    {<<w, x>> : w \in Wrappers, x \in {Int64, VarArgs(<<Int64>>)}}

\* integer and floating point registers used up to a point, then a struct of
\* two scalars
PairLists ==
    {Repeat(<<Int32>>, ki) \o Repeat(<<Float>>, kf) \o <<x>> :
        ki \in {0, NumArgRegs - 1, NumArgRegs},
        kf \in {0, NumArgRegs - 2, NumArgRegs - 1, NumArgRegs},
        x \in PairTypes}

StackTypes == {Int8, Int32, Int64, Double, LongDouble,
               Struct(<<Int16, Int16, Int16>>), Struct(<<Ptr32, Int32>>)}

RECURSIVE SeqsUpTo(_, _)
SeqsUpTo(S, n) ==
    IF n = 0 THEN {<<>>}
    ELSE LET shorter == SeqsUpTo(S, n - 1)
         IN  shorter \cup {Append(t, x) : t \in shorter, x \in S}

\* the integer registers nearly used up, then arguments of several sizes and
\* alignments
StackLists ==
    {Repeat(<<Int32>>, k) \o t :
        k \in {NumArgRegs - 2, NumArgRegs - 1, NumArgRegs},
        t \in SeqsUpTo(StackTypes, MaxTail)}

RetTypes == ArgTypes \cup PairTypes \cup {VarArgs(<<Int32>>)}

Input(m, e, args, out) ==
    [xlen |-> m[1], flen |-> m[2], entry |-> e, arg_list |-> args,
     ret_ty |-> out]

Inputs ==
    {Input(m, "call", args, None) :
        m \in Machines, args \in FillLists \cup EmptyLists \cup MisuseLists}
    \cup {Input(m, "call", args, None) :
            m \in {m \in Machines : bool(m[2])}, args \in PairLists}
    \cup {Input(m, "call", args, None) :
            m \in {<<32, NoneLen>>, <<64, NoneLen>>, <<32, 64>>},
            args \in StackLists}
    \cup {Input(m, "call", args, out) :
            m \in Machines, out \in RetTypes,
            args \in {<<>>, <<Int64>>, Repeat(<<Int32>>, NumArgRegs + 1),
                      <<Int32, VarArgs(<<Int64>>)>>}}
    \cup {Input(m, "ret", <<>>, out) :
            m \in Machines, out \in {None} \cup RetTypes \cup Wrappers}

\* the descriptors the module defines once, by name: every use of the name
\* is the same Python object
Predefined ==
    {Int8, Int16, Int32, Int64, Int128, UInt8, UInt16, UInt32, UInt64,
     UInt128, Char, Float, Double,
     LongDouble, Ptr32, Ptr64}

\* the Python objects of an input: the record [args, out] of the identities
\* of the descriptors in the argument list (a trailing VarArgs counted by
\* the descriptors it wraps) and of the return type. Every descriptor the
\* caller built is an object of its own.
FreshObjects(args, out) ==
    LET elems == unwrap_var_args(args)
    IN  [args |-> [i \in 1..Len(elems) |-> i], out |-> Len(elems) + 1]

\* the objects when the caller wrote the predefined descriptors by name:
\* equal predefined descriptors are one object, named by its first position
SharedObjects(args, out) ==
    LET elems == unwrap_var_args(args)
        first(ty, n) ==
            IF ty \in Predefined /\ \E j \in 1..n : elems[j] = ty
            THEN CHOOSE j \in 1..n :
                    elems[j] = ty /\ \A k \in 1..(j - 1) : elems[k] # ty
            ELSE n + 1
    IN  [args |-> [i \in 1..Len(elems) |-> first(elems[i], i - 1)],
         out |-> first(out, Len(elems))]

Init ==
    /\ \E inp \in Inputs :
          /\ xlen = inp.xlen
          /\ flen = inp.flen
          /\ entry = inp.entry
          /\ arg_list = inp.arg_list
          /\ ret_ty = inp.ret_ty
          /\ instances \in {FreshObjects(inp.arg_list, inp.ret_ty),
                            SharedObjects(inp.arg_list, inp.ret_ty)}
    /\ state = None
    /\ index = 0
    /\ pc = "start"
    /\ raised = NoError

Spec == Init /\ [][Next]_vars

(***************************************************************************)
(* The properties                                                          *)
(***************************************************************************)
\* a CCState exists and no exception ended the call
Allocating == pc \in {"loop", "done"}

\* the step is a round of the loop over the arguments that raised nothing
LoopStep == pc = "loop" /\ index < Len(state.in_args) /\ pc' = "loop"

\* the argument the next round of the loop classifies
CurArg == state.in_args[index + 1]

CurIsVarArg == index >= state.var_args_index

\* argument register n (a0 is 0) of a register file
ArgReg(regs, n) == regs[FirstArgReg + n]

\* the register files without the registers that are no argument registers
OnlyArgRegs(regs) ==
    \A r \in 0..(NumRegs - 1) :
        (r < FirstArgReg \/ r >= FirstArgReg + NumArgRegs) => regs[r] = None

\* x rounded up to a multiple of a
RoundUp(x, a) == ((x + a - 1) \div a) * a

\* the caller gave a return type for which call passes a hidden pointer when
\* no floating point register file is configured
BigReturn == state.out_arg # None /\ state.out_arg.size > 2 * xlen

\* no floating point registers, no variadic arguments, and every argument of
\* at most xlen bits
SmallIntArgs ==
    /\ Allocating
    /\ entry = "call"
    /\ ~bool(flen)
    /\ state.var_args_index >= Len(state.in_args)
    /\ \A i \in 1..Len(state.in_args) : state.in_args[i].size <= xlen

\* the first index arguments are placed in order in the integer argument
\* registers from register n0 on and then on the stack
PlacedInOrder(n0) ==
    /\ \A j \in 1..index :
          IF j + n0 <= NumArgRegs
          THEN ArgReg(state.gprs, j + n0 - 1) = state.in_args[j]
          ELSE /\ j + n0 - NumArgRegs <= Len(state.stack)
               /\ state.stack[j + n0 - NumArgRegs] = state.in_args[j]

\* nothing else is in the integer argument registers or on the stack
NothingElse(n0) ==
    /\ \A n \in 0..(NumArgRegs - 1) :
          n >= index + n0 => ArgReg(state.gprs, n) = None
    /\ Len(state.stack) = Max(0, index + n0 - NumArgRegs)
    /\ state.gprs_left = Max(0, NumArgRegs - index - n0)

\* C1 (as amended): for arguments of at most xlen bits with no floating point
\* registers and no variadic arguments, the first 8 are in a0..a7 in input
\* order and the later ones on the stack in input order when call passes no
\* hidden pointer to the return value (with one, the pointer is in a0 and the
\* arguments follow from a1); and in every state a non-empty stack implies
\* gprs_left = 0.
C1_FillOrder ==
    /\ SmallIntArgs => (IF BigReturn THEN /\ ArgReg(state.gprs, 0).kind = "Ptr"
                                          /\ PlacedInOrder(1)
                                          /\ NothingElse(1)
                        ELSE PlacedInOrder(0) /\ NothingElse(0))
    /\ (state # None /\ state.stack # <<>>) => state.gprs_left = 0

\* C1 as stated: the first 8 arguments are in a0..a7 whatever the return type
C1_Original ==
    /\ SmallIntArgs => PlacedInOrder(0)
    /\ (state # None /\ state.stack # <<>>) => state.gprs_left = 0

\* ten small arguments of more than one type: eight in registers, two on the
\* stack
C1_Witness ==
    /\ SmallIntArgs
    /\ pc = "done"
    /\ ~BigReturn
    /\ Len(state.in_args) = NumArgRegs + 2
    /\ Len(state.stack) = 2
    /\ state.stack[2] = state.in_args[NumArgRegs + 2]
    /\ state.stack[2].kind = "Struct"
    /\ ArgReg(state.gprs, NumArgRegs - 1) = state.in_args[NumArgRegs]

\* a round of the loop is about to classify an argument
AtArg == pc = "loop" /\ index < Len(state.in_args)

\* the floating point rules leave the argument to the integer convention
IntegerRouted ==
    ~(bool(flen) /\ ~CurIsVarArg /\ fp_convention(state, CurArg).handled)

FprsUnchanged ==
    /\ state'.fprs = state.fprs
    /\ state'.fprs_left = state.fprs_left

LowHalf == Slice(CurArg, 0, xlen - 1)

HighHalf == Slice(CurArg, xlen, 2 * xlen - 1)

\* with g integer registers left: two halves in the next two registers, or
\* the low half in a7 and the high half the first stack object, or the whole
\* argument on the stack
SplitWith(g) ==
    /\ pc' = "loop"
    /\ FprsUnchanged
    /\ IF g >= 2
       THEN /\ state'.gprs =
                 [state.gprs EXCEPT ![FirstArgReg + NumArgRegs - g] = LowHalf,
                                    ![FirstArgReg + NumArgRegs - g + 1] = HighHalf]
            /\ state'.stack = state.stack
            /\ state'.gprs_left = g - 2
       ELSE IF g = 1
       THEN /\ state'.gprs =
                 [state.gprs EXCEPT ![FirstArgReg + NumArgRegs - 1] = LowHalf]
            /\ state'.stack = <<HighHalf>>
            /\ state'.gprs_left = 0
       ELSE /\ state'.gprs = state.gprs
            /\ state'.stack = Append(state.stack, CurArg)
            /\ state'.gprs_left = 0

\* the argument was supplied inside the VarArgs wrapper
SuppliedVariadic(arg) == arg.id > state.var_args_index

\* a register may be skipped only for an argument supplied inside the VarArgs
\* wrapper that is aligned to 2*xlen and is reached when an odd number of
\* integer registers is left
SkipAllowed ==
    /\ SuppliedVariadic(CurArg)
    /\ CurArg.alignment = 2 * xlen
    /\ state.gprs_left % 2 = 1

TwoXlenAtIntegerConvention ==
    AtArg /\ IntegerRouted /\ xlen < CurArg.size /\ CurArg.size <= 2 * xlen

Occupies(st, id) ==
    LET Is(obj) == \/ obj.kind = "Slice" /\ obj.child.id = id
                   \/ obj.kind \notin {"Slice", "None"} /\ obj.id = id
    IN  \/ \E r \in 0..(NumRegs - 1) : Is(st.gprs[r])
        \/ st.fprs # None /\ \E r \in 0..(NumRegs - 1) : Is(st.fprs[r])
        \/ \E k \in 1..Len(st.stack) : Is(st.stack[k])

IsPointerTo(st, p, name) ==
    /\ p.kind = "Ptr"
    /\ p.size = xlen
    /\ p.alignment = xlen
    /\ typestr_or_name(st, p) = "&" \o name

\* one pointer to the argument takes the next integer register, or goes on
\* the stack when none is left; the argument itself is nowhere
PointerPassed ==
    /\ pc' = "loop"
    /\ FprsUnchanged
    /\ IF state.gprs_left >= 1
       THEN /\ IsPointerTo(state', state'.gprs[next_arg_gpr(state)],
                           typestr_or_name(state, CurArg))
            /\ state'.gprs = [state.gprs EXCEPT ![next_arg_gpr(state)] =
                                 state'.gprs[next_arg_gpr(state)]]
            /\ state'.stack = state.stack
            /\ state'.gprs_left = state.gprs_left - 1
       ELSE /\ state'.gprs = state.gprs
            /\ state'.gprs_left = 0
            /\ Len(state'.stack) = Len(state.stack) + 1
            /\ SubSeq(state'.stack, 1, Len(state.stack)) = state.stack
            /\ IsPointerTo(state', state'.stack[Len(state'.stack)],
                           typestr_or_name(state, CurArg))
    /\ ~Occupies(state', CurArg.id)

\* C3 (as amended): for every argument of size > 2*xlen that reaches the
\* integer convention (every such argument when no FP register file is
\* configured) exactly one Ptr(xlen) is placed, in the next integer register
\* or on the stack when none remains, it is named '&' + the argument's name,
\* and the argument itself is in no register and no stack slot.
C3_ByReference ==
    [][(AtArg /\ IntegerRouted /\ CurArg.size > 2 * xlen) => PointerPassed]_vars

\* C3 as stated: every argument of size > 2*xlen, of the calls that raise
\* nothing
C3_Original ==
    [][(AtArg /\ CurArg.size > 2 * xlen /\ pc' = "loop") => PointerPassed]_vars

\* a pointer to an argument of more than 2*xlen bits is on the stack, and
\* another one in a register
C3_Witness ==
    /\ pc = "done"
    /\ \E k \in 1..Len(state.stack), i \in 1..Len(state.in_args) :
          /\ state.in_args[i].size > 2 * xlen
          /\ IsPointerTo(state, state.stack[k],
                         typestr_or_name(state, state.in_args[i]))
          /\ ~Occupies(state, state.in_args[i].id)

\* the offset of member k of a member list: the sizes of the members before it
RECURSIVE MemberOffset(_, _)
MemberOffset(members, k) ==
    IF k = 1 THEN 0
    ELSE MemberOffset(members, k - 1) + members[k - 1].size

StructLaidOut(ty) ==
    LET n == Len(ty.members)
    IN  /\ \A k \in 1..n :
              MemberOffset(ty.members, k) % ty.members[k].alignment = 0
        /\ \A k \in 1..n : ty.members[k].alignment <= ty.alignment
        /\ \E k \in 1..n : ty.members[k].alignment = ty.alignment
        /\ ty.size = RoundUp(MemberOffset(ty.members, n) + ty.members[n].size,
                             ty.alignment)
        /\ ty.size >= MemberOffset(ty.members, n) + ty.members[n].size

\* C4: every struct has its members at offsets that are multiples of their
\* alignments, and its size is the sum of the sizes of its members, padding
\* included, rounded up to the largest member alignment; so the size is at
\* least the offset of the last member plus its size.
C4_StructLayout ==
    state # None =>
        \A i \in 1..Len(state.in_args) :
            (isStruct(state.in_args[i]) /\ state.in_args[i].members # <<>>)
                => StructLaidOut(state.in_args[i])

\* the argument was supplied as a named argument, not inside the VarArgs
\* wrapper: identities are the positions in the unwrapped list
SuppliedNamed(arg) == arg.id <= state.var_args_index

Leaves(ty) == not_pad(flatten(ty))

FPLeaves(ty) ==
    Cardinality({k \in 1..2 : Leaves(ty)[k].kind = "FP"})

\* a struct of at most 2*flen bits that flattens to (FP, FP), (FP, Int) or
\* (Int, FP), each within its register width
IsFPPair(ty) ==
    /\ isStruct(ty)
    /\ ty.size <= 2 * flen
    /\ Len(Leaves(ty)) = 2
    /\ <<Leaves(ty)[1].kind, Leaves(ty)[2].kind>> \in
          {<<"FP", "FP">>, <<"FP", "Int">>, <<"Int", "FP">>}
    /\ \A k \in 1..2 :
          Leaves(ty)[k].size <= (IF Leaves(ty)[k].kind = "FP" THEN flen ELSE xlen)

FPPairAtArg ==
    AtArg /\ bool(flen) /\ SuppliedNamed(CurArg) /\ IsFPPair(CurArg)

FirstLeafSlice == Slice(CurArg, 0, Leaves(CurArg)[1].size - 1)

SecondLeafSlice ==
    LET off2 == RoundUp(Leaves(CurArg)[1].size, Leaves(CurArg)[2].alignment)
    IN  Slice(CurArg, off2, off2 + Leaves(CurArg)[2].size - 1)

\* the two leaves in the next registers of their kinds
LeavesInRegisters ==
    LET nf == next_arg_fpr(state)
        ng == next_arg_gpr(state)
        k1 == Leaves(CurArg)[1].kind
        k2 == Leaves(CurArg)[2].kind
    IN  /\ pc' = "loop"
        /\ state'.stack = state.stack
        /\ FirstLeafSlice.high < SecondLeafSlice.low
        /\ state'.fprs_left = state.fprs_left - FPLeaves(CurArg)
        /\ state'.gprs_left = state.gprs_left - (2 - FPLeaves(CurArg))
        /\ IF k1 = "FP" /\ k2 = "FP"
           THEN /\ state'.fprs = [state.fprs EXCEPT ![nf] = FirstLeafSlice,
                                                    ![nf + 1] = SecondLeafSlice]
                /\ state'.gprs = state.gprs
           ELSE IF k1 = "FP"
           THEN /\ state'.fprs = [state.fprs EXCEPT ![nf] = FirstLeafSlice]
                /\ state'.gprs = [state.gprs EXCEPT ![ng] = SecondLeafSlice]
           ELSE /\ state'.gprs = [state.gprs EXCEPT ![ng] = FirstLeafSlice]
                /\ state'.fprs = [state.fprs EXCEPT ![nf] = SecondLeafSlice]

\* C5: with an FP register file, a named struct argument of at most 2*flen
\* bits that flattens to (FP, FP), (FP, Int) or (Int, FP) within the register
\* widths has, when enough registers remain, its first leaf placed as
\* Slice(arg, 0, size1-1) and its second as Slice(arg, off2, off2+size2-1) at
\* the naturally aligned offset off2, FP leaves in the next FP register and
\* Int leaves in the next integer register; otherwise no leaf is placed and
\* the argument is passed by the integer convention.  The slices do not
\* overlap.
C5_FPPair ==
    [][FPPairAtArg =>
          IF /\ state.fprs_left >= FPLeaves(CurArg)
             /\ state.gprs_left >= 2 - FPLeaves(CurArg)
          THEN LeavesInRegisters
          ELSE /\ state' = integer_convention(state, CurArg, FALSE)
               /\ FprsUnchanged
               /\ pc' = "loop"]_vars

\* an (Int, FP) struct after seven integers and seven floats: its first leaf
\* in a7, its second leaf, after padding, in fa7
C5_Witness ==
    /\ pc = "done"
    /\ bool(flen)
    /\ \E i \in 1..Len(state.in_args) :
          LET a == ArgReg(state.gprs, NumArgRegs - 1)
              f == ArgReg(state.fprs, NumArgRegs - 1)
          IN  /\ SuppliedNamed(state.in_args[i])
              /\ IsFPPair(state.in_args[i])
              /\ a.kind = "Slice" /\ a.child = state.in_args[i]
              /\ f.kind = "Slice" /\ f.child = state.in_args[i]
              /\ a.low = 0
              /\ f.low > a.high + 1

\* the descriptor the caller supplied for an argument of a call: arg_list is
\* the caller's list, which call has unwrapped
Supplied(arg) == arg_list[arg.id]

\* C6: every integer argument supplied inside the VarArgs wrapper with
\* size < xlen is classified with size and alignment xlen, every
\* floating-point one with size < flen with size and alignment flen, and
\* without an FP register file the floating-point ones are left unchanged.
C6_Promotion ==
    (state # None /\ entry = "call") =>
        \A i \in 1..Len(state.in_args) :
            LET arg == state.in_args[i]
                orig == Supplied(arg)
            IN  SuppliedVariadic(arg) =>
                  /\ (isInt(orig) /\ orig.size < xlen)
                        => (arg.size = xlen /\ arg.alignment = xlen)
                  /\ (isFP(orig) /\ bool(flen) /\ orig.size < flen)
                        => (arg.size = flen /\ arg.alignment = flen)
                  /\ (isFP(orig) /\ ~bool(flen))
                        => (arg.size = orig.size
                            /\ arg.alignment = orig.alignment)

VariadicTwoXlenAtArg ==
    /\ AtArg
    /\ SuppliedVariadic(CurArg)
    /\ xlen < CurArg.size
    /\ CurArg.size <= 2 * xlen

\* C7: a variadic argument with xlen < size <= 2*xlen and alignment 2*xlen
\* has one register skipped when an odd number remains, and then both halves
\* are in a(2k), a(2k+1) or, when no register remains, the whole argument is
\* on the stack; one of alignment below 2*xlen has no register skipped.
C7_AlignedPair ==
    [][VariadicTwoXlenAtArg =>
          IF CurArg.alignment = 2 * xlen
          THEN SplitWith(state.gprs_left - (state.gprs_left % 2))
          ELSE SplitWith(state.gprs_left)]_vars

\* call has dropped no empty struct from the list
NothingDropped ==
    Len(state.in_args) = Len(arg_list)

\* C7 for the calls whose list holds no empty struct
C7_AlignedPairNoEmpty ==
    [][(VariadicTwoXlenAtArg /\ entry = "call" /\ NothingDropped) =>
          IF CurArg.alignment = 2 * xlen
          THEN SplitWith(state.gprs_left - (state.gprs_left % 2))
          ELSE SplitWith(state.gprs_left)]_vars

\* call is about to classify its first argument
AfterReturnType == pc = "loop" /\ index = 0 /\ entry = "call"

NoRegisterUsed ==
    /\ state.gprs_left = NumArgRegs
    /\ \A n \in 0..(NumArgRegs - 1) : ArgReg(state.gprs, n) = None
    /\ state.stack = <<>>

\* C8: a return type that the floating point struct-return rule does not
\* take and that is larger than 2*xlen has a pointer named '&ret' in a0
\* before any argument is classified, and the arguments start at a1; without
\* an FP register file a return type of at most 2*xlen uses no register.
C8_ReturnPointer ==
    AfterReturnType =>
        LET out == state.out_arg
        IN  /\ (out # None /\ ~(bool(flen) /\ IsFPPair(out))
                /\ out.size > 2 * xlen)
                  => /\ IsPointerTo(state, ArgReg(state.gprs, 0), "ret")
                     /\ state.gprs_left = NumArgRegs - 1
                     /\ \A n \in 1..(NumArgRegs - 1) :
                           ArgReg(state.gprs, n) = None
                     /\ state.stack = <<>>
            /\ (out # None /\ ~bool(flen) /\ out.size <= 2 * xlen)
                  => NoRegisterUsed

\* C8 without an FP register file
C8_ReturnPointerNoFP == ~bool(flen) => C8_ReturnPointer

\* the expected byte offset of stack object i (1-based)
RECURSIVE ExpectedLoc(_)
ExpectedLoc(i) ==
    IF i = 1 THEN 0
    ELSE RoundUp(RoundUp(ExpectedLoc(i - 1) + state.stack[i - 1].size \div 8,
                         xlen \div 8),
                 state.stack[i].alignment \div 8)

\* both functions return the expected offsets, which increase strictly and
\* keep the byte ranges of the objects apart
OffsetsAsExpected ==
    LET r == get_oldsp_rel_stack_locs(state)
    IN  /\ r.exc = NoError
        /\ Len(r.value) = Len(state.stack)
        /\ \A i \in 1..Len(state.stack) :
              /\ r.value[i] = ExpectedLoc(i)
              /\ get_oldsp_rel_stack_loc(state, i - 1) =
                    [exc |-> NoError, value |-> ExpectedLoc(i)]
              /\ i > 1 =>
                    /\ r.value[i] > r.value[i - 1]
                    /\ r.value[i] * 8 >=
                          r.value[i - 1] * 8 + state.stack[i - 1].size

\* C9: in a finished allocation stack object 0 is at byte offset 0 and each
\* later object at the offset of the one before plus its size, rounded up to
\* xlen and then to the object's own alignment; get_oldsp_rel_stack_locs and
\* get_oldsp_rel_stack_loc both give it, the offsets increase strictly and
\* the byte ranges of the objects do not overlap.
C9_StackOffsets == pc = "done" => OffsetsAsExpected

\* C9 for the stacks without an object that the promotion gave size 0
C9_StackOffsetsSized ==
    (pc = "done" /\ \A i \in 1..Len(state.stack) : state.stack[i].size > 0)
        => OffsetsAsExpected

\* four stack objects, one of them moved up by its own alignment
C9_Witness ==
    /\ pc = "done"
    /\ Len(state.stack) >= 4
    /\ \A i \in 1..Len(state.stack) : state.stack[i].size > 0
    /\ \E i \in 2..Len(state.stack) :
          /\ state.stack[i].alignment > xlen
          /\ get_oldsp_rel_stack_locs(state).value[i] * 8 >
                RoundUp(get_oldsp_rel_stack_locs(state).value[i - 1] * 8
                        + state.stack[i - 1].size, xlen)

\* the caller used a VarArgs as the return type, not as the last element of
\* the list, or inside another VarArgs: after call has unwrapped the last
\* element, any VarArgs left in the list is one of the last two
VarArgsMisused ==
    \/ isVarArgs(ret_ty)
    \/ entry = "call" /\ \E i \in 1..Len(arg_list) : isVarArgs(arg_list[i])

\* C10: every misuse of VarArgs is rejected with InvalidVarArgs, by call and
\* by ret.
C10_Rejected ==
    (pc # "start" /\ VarArgsMisused) =>
        (pc = "raised" /\ raised.type = "InvalidVarArgs")

\* C10 for call alone
C10_RejectedByCall == entry = "call" => C10_Rejected

\* the same descriptor object is twice among the arguments, or is an
\* argument and the return type
SameObjectTwice ==
    \/ \E i, j \in 1..Len(instances.args) :
          i # j /\ instances.args[i] = instances.args[j]
    \/ ret_ty # None
       /\ \E i \in 1..Len(instances.args) : instances.args[i] = instances.out

\* C11: call rejects with ValueError 'Unique type objects must be used', and
\* produces no classification, every input in which the same descriptor
\* object appears twice among the arguments or as an argument and as the
\* return type.
C11_UniqueObjects ==
    (entry = "call" /\ pc # "start" /\ SameObjectTwice) =>
        /\ pc = "raised"
        /\ raised = Exception("ValueError", "Unique type objects must be used")
        /\ state = None

\* the names in the argument registers of a register file
RegNames(st, regs) ==
    [n \in 0..(NumArgRegs - 1) |-> typestr_or_name(st, ArgReg(regs, n))]

\* what a caller sees of a call: the exception, or the names in the
\* argument registers and on the stack
Outcome(r) ==
    IF r.exc # NoError THEN [exc |-> r.exc]
    ELSE [exc |-> NoError,
          gprs |-> RegNames(r.state, r.state.gprs),
          fprs |-> IF bool(r.state.flen)
                   THEN RegNames(r.state, r.state.fprs) ELSE <<>>,
          stack |-> [i \in 1..Len(r.state.stack) |->
                        typestr_or_name(r.state, r.state.stack[i])]]

\* C12: call leaves the caller's argument list unchanged, a trailing VarArgs
\* wrapper still in place, whether it returns or raises, so a second call
\* with the same list object and return type has the outcome of the first.
C12_Pure ==
    [][(pc = "start" /\ entry = "call") =>
          /\ arg_list' = arg_list
          /\ Outcome(call_whole(arg_list', ret_ty, xlen, flen)) =
                Outcome(call_whole(arg_list, ret_ty, xlen, flen))]_vars

\* C12 for the lists that do not end with a VarArgs wrapper
C12_PureNoWrapper ==
    [][(pc = "start" /\ entry = "call"
        /\ ~(Len(arg_list) >= 1 /\ isVarArgs(arg_list[Len(arg_list)]))) =>
          /\ arg_list' = arg_list
          /\ Outcome(call_whole(arg_list', ret_ty, xlen, flen)) =
                Outcome(call_whole(arg_list, ret_ty, xlen, flen))]_vars

\* a struct that flattens to one floating-point leaf of at most flen bits
IsSingleFPLeaf(ty) ==
    /\ isStruct(ty)
    /\ Len(flatten(ty)) = 1
    /\ isFP(flatten(ty)[1])
    /\ flatten(ty)[1].size <= flen

SingleFPLeafAtArg ==
    AtArg /\ bool(flen) /\ SuppliedNamed(CurArg) /\ IsSingleFPLeaf(CurArg)

\* C13: with an FP register file, a named struct argument that flattens to
\* one floating-point leaf of size <= flen is classified without error: it
\* goes to the next FP argument register when one remains, using no integer
\* register and no stack slot, and to the integer convention when none
\* remains.
C13_SingleLeaf ==
    [][SingleFPLeafAtArg =>
          /\ pc' = "loop"
          /\ IF state.fprs_left >= 1
             THEN /\ state'.fprs =
                        [state.fprs EXCEPT ![next_arg_fpr(state)] = CurArg]
                  /\ state'.fprs_left = state.fprs_left - 1
                  /\ state'.gprs = state.gprs
                  /\ state'.gprs_left = state.gprs_left
                  /\ state'.stack = state.stack
             ELSE state' = integer_convention(state, CurArg, FALSE)]_vars

\* what the code does with such an argument
C13_TypeError ==
    [][SingleFPLeafAtArg =>
          /\ pc' = "raised"
          /\ raised' = Exception("TypeError",
                                 "'Struct' object is not subscriptable")]_vars

isEmptyStruct(ty) == isStruct(ty) /\ ty.members = <<>>

\* an argument list without the empty structs among its named arguments
WithoutEmpty(args) ==
    IF Len(args) >= 1 /\ isVarArgs(args[Len(args)])
    THEN SelectSeq(SubSeq(args, 1, Len(args) - 1),
                   LAMBDA ty : ~isEmptyStruct(ty))
         \o <<args[Len(args)]>>
    ELSE SelectSeq(args, LAMBDA ty : ~isEmptyStruct(ty))

\* the loop treats the argument at position i of in_args as variadic
TreatedVariadic(i) == i - 1 >= state.var_args_index

isVargName(name) == \E k \in 0..99 : name = "varg" \o zfill2(k)

\* the argument, or a slice of it, is in an FP argument register
InFPR(arg) ==
    \E n \in 0..(NumArgRegs - 1) :
        LET r == ArgReg(state.fprs, n)
        IN  r # None
            /\ IF r.kind = "Slice" THEN r.child.id = arg.id
               ELSE r.id = arg.id

\* C14: empty structs among the named arguments change nothing else: the
\* call has the register contents and the stack of the call without them,
\* the arguments treated as variadic are those supplied inside the VarArgs
\* wrapper, and each of those is named 'vargNN', is promoted and is never in
\* an FP register.
C14_EmptyDropped ==
    /\ (pc = "start" /\ entry = "call") =>
          Outcome(call_whole(arg_list, ret_ty, xlen, flen)) =
             Outcome(call_whole(WithoutEmpty(arg_list), ret_ty, xlen, flen))
    /\ (state # None /\ entry = "call") =>
          \A i \in 1..Len(state.in_args) :
              LET arg == state.in_args[i]
              IN  /\ SuppliedVariadic(arg) <=> TreatedVariadic(i)
                  /\ SuppliedVariadic(arg) =>
                        /\ isVargName(typestr_or_name(state, arg))
                        /\ (isInt(Supplied(arg)) /\ Supplied(arg).size < xlen)
                              => arg.size = xlen
                        /\ state.fprs # None => ~InFPR(arg)

\* C14 for the lists that hold no empty struct
C14_NoEmpty ==
    (state # None /\ entry = "call" /\ NothingDropped) =>
        \A i \in 1..Len(state.in_args) :
            LET arg == state.in_args[i]
            IN  /\ SuppliedVariadic(arg) <=> TreatedVariadic(i)
                /\ SuppliedVariadic(arg) =>
                      /\ isVargName(typestr_or_name(state, arg))
                      /\ (isInt(Supplied(arg)) /\ Supplied(arg).size < xlen)
                            => arg.size = xlen
                      /\ state.fprs # None => ~InFPR(arg)

\* the messages of the checks inside the allocation operations of CCState
DefensiveMessages ==
    {"object is larger than xlen",
     "object is larger than flen",
     "all argument registers already assigned",
     "all FP argument registers already assigned",
     "all GPRs assigned",
     "objects larger than 2x xlen should be passed by reference"}

\* C15: no call raises one of the errors of the checks inside the
\* allocation operations, and in every state 0 <= gprs_left <= 8 and, with
\* an FP register file, 0 <= fprs_left <= 8.
C15_DefensiveUnreachable ==
    /\ raised.msg \notin DefensiveMessages
    /\ state # None =>
          /\ state.exc.msg \notin DefensiveMessages
          /\ state.gprs_left \in 0..NumArgRegs
          /\ bool(flen) => state.fprs_left \in 0..NumArgRegs

\* a finished call that used every argument register of both files and the
\* stack, a pointer to an argument passed by reference on it
C15_Witness ==
    /\ pc = "done"
    /\ entry = "call"
    /\ bool(flen)
    /\ state.gprs_left = 0
    /\ state.fprs_left = 0
    /\ \E i \in 1..Len(state.stack) : state.stack[i].kind = "Ptr"
====
